---- MODULE Spec2Model ----
(***************************************************************************)
(* A model of src/reset.rs: the registration of a reset controller with    *)
(* the kernel's reset subsystem (ResetRegistration::new / register / drop) *)
(* and the dispatch of the subsystem's callbacks to the typed driver       *)
(* operations (Adapter::VTABLE and the four *_callback trampolines).       *)
(*                                                                         *)
(* The kernel side is the environment: the per-device drvdata slot         *)
(* (dev_set_drvdata / dev_get_drvdata), the registration entry point       *)
(* devm_reset_controller_register, which either accepts the control block  *)
(* (status >= 0, it then holds its address) or rejects it (status < 0),    *)
(* and the callers of the vtable entries, which may run concurrently with  *)
(* everything else.                                                        *)
(***************************************************************************)
EXTENDS Integers, FiniteSets, TLC

\* ------------------------------------------------------------------ bounds
NumRegs  == 2   \* registration objects
NumDevs  == 2   \* platform devices
MaxData  == 2   \* private-data values ever created (= register calls made)
MaxCalls == 1   \* callback invocations that can be in flight together
MaxVal   == 2   \* largest value the counter of the example driver takes
PairCalls == 2  \* invocations in flight together where two are interleaved

Regs    == 1..NumRegs
Devs    == 1..NumDevs
DataIds == 1..MaxData
CallIds == 1..MaxCalls

\* ------------------------------------------------------- program constants
NULL     == 0      \* the null pointer / Option::None of a pointer-like field
EINVAL   == 22     \* error::code::EINVAL
ENOTSUPP == 524    \* error::code::ENOTSUPP

None  == "None"    \* Option::None of a vtable entry
Kinds == {"reset", "assert", "deassert", "status"}

NrResets == {4, 8}         \* values of the nr_resets argument
LineIds  == {0, 3}         \* values of the line identifier `id`
ExtRets  == {-12, 0, 1}    \* statuses of devm_reset_controller_register

\* Result<i32> / Result: Ok(v) and Err(e); an Error holds its negative errno.
Ok(v)  == [tag |-> "Ok", v |-> v]
Err(e) == [tag |-> "Err", v |-> -e]
NoRet  == [tag |-> "None", v |-> 0]

\* What an overridden driver operation may return.
OpResults == {Ok(1), Err(EINVAL)}

VARIABLES
    HAS,          \* the operations the bound type T overrides (T::HAS_<OP>)
    alive,        \* alive[r]: the registration object r has not been dropped
    rcdev,        \* rcdev[r]: the control block (bindings::reset_controller_dev)
    dev,          \* dev[r]: Option<device::Device>, NULL for None
    registered,   \* registered[r]
    drvdata,      \* drvdata[d]: the per-device data slot of device d
    data,         \* data[i]: private-data value i; st is "unborn", "foreign"
                  \*   (a token made by into_foreign) or "dropped"; drops counts
                  \*   how many times the value was dropped; val is the state
                  \*   the driver keeps in it (the counter of the example driver)
    ext,          \* the control blocks the reset subsystem holds the address of
    rcall,        \* rcall[r]: the register call on r: pc is "idle", or
                  \*   "installed" between dev_set_drvdata and the registration
                  \*   entry point; data is the `data` argument of the latest
                  \*   call, tok the data_pointer of the latest into_foreign,
                  \*   dev and nr the `dev` and `nr_resets` arguments of the
                  \*   latest call that went on to the entry point
    hist,         \* hist[r]: what the caller of register has seen: ret, the
                  \*   latest return value; path, the return path taken; failed,
                  \*   whether a call on r was ever rejected by the entry point;
                  \*   pre, the control block and the slot as they were when
                  \*   the latest rejected or running call was entered; rej, the
                  \*   status the entry point rejected the latest finished call
                  \*   with, 0 if it did not reject it
    call,         \* call[c]: a callback invocation by the reset subsystem
    done          \* the latest invocation that returned to the subsystem:
                  \*   the kind asked for, the trampoline run (None if the
                  \*   entry is absent), the typed operation it called, whether
                  \*   it read the slot and borrowed, the typed result, the
                  \*   status returned

regvars  == <<alive, rcdev, dev, registered, rcall, hist>>
kernvars == <<drvdata, ext>>
callvars == <<call, done>>
vars     == <<HAS, regvars, kernvars, data, callvars>>

\* ------------------------------------------------------------ the vtable
\* The typed operation each trampoline calls.
TypedOp(cb) ==
    CASE cb = "reset_callback"    -> "reset"
      [] cb = "assert_callback"   -> "assert"
      [] cb = "deassert_callback" -> "deassert"
      [] cb = "status_callback"   -> "status"

\* The status entry guarded by the flag of reset.
VTABLE_WrongFlag(T) ==
    [ reset    |-> IF "reset"    \in T THEN "reset_callback"    ELSE None,
      assert   |-> IF "assert"   \in T THEN "assert_callback"   ELSE None,
      deassert |-> IF "deassert" \in T THEN "deassert_callback" ELSE None,
      status   |-> IF "reset"    \in T THEN "status_callback"   ELSE None ]

\* Every entry a trampoline, whether or not T overrides the operation.
VTABLE_AlwaysPresent(T) ==
    [ reset    |-> "reset_callback",
      assert   |-> "assert_callback",
      deassert |-> "deassert_callback",
      status   |-> "status_callback" ]

\* Adapter::<T>::VTABLE for the type whose overridden operations are T.
VTABLE(T) ==
    [ reset    |-> IF "reset"    \in T THEN "reset_callback"    ELSE None,
      assert   |-> IF "assert"   \in T THEN "assert_callback"   ELSE None,
      deassert |-> IF "deassert" \in T THEN "deassert_callback" ELSE None,
      status   |-> IF "status"   \in T THEN "status_callback"   ELSE None ]

\* Adapter::build(): the address of the static table.
Build == "VTABLE"

\* The table an ops pointer designates.
OpsTable(p) == IF p = Build THEN VTABLE(HAS) ELSE [k \in Kinds |-> None]

\* The typed operation `op` of T: its default body unless T overrides it.
OpOutcomes(op) == IF op \in HAS THEN OpResults ELSE {Err(ENOTSUPP)}

\* The errno of a failure returned with its sign dropped.
FromResult_Positive(res) == IF res.tag = "Ok" THEN res.v ELSE -res.v

\* error::from_result: Ok(v) => v, Err(e) => e.to_errno().
FromResult(res) == IF res.tag = "Ok" THEN res.v ELSE res.v

\* Error::from_errno(ret)
FromErrno(ret) == [tag |-> "Err", v |-> ret]

\* ------------------------------------------------------- device accessors
RawDevice(d) == d           \* platform::Device::raw_device
OfNode(d)    == 10 * d      \* (*rcdev.dev).of_node

DefaultRcdev == [dev |-> NULL, nr_resets |-> 0, of_node |-> NULL, ops |-> "null"]
NoPre    == [rcdev |-> DefaultRcdev, slot |-> NULL]
IdleCall == [pc |-> "idle", reg |-> NULL, kind |-> None, cb |-> None, ptr |-> NULL]
NoneDone == [kind |-> None, cb |-> None, op |-> None, touched |-> FALSE,
             res |-> NoRet, ret |-> 0]

\* The private-data value the next register call is given.
Unborn   == {i \in DataIds : data[i].st = "unborn"}
NextData == CHOOSE i \in Unborn : \A j \in Unborn : i <= j

\* ------------------------------------------------------------------- Init
\* ResetRegistration::new() for every object; nothing registered, no data.
Init ==
    /\ HAS \in SUBSET Kinds
    /\ alive = [r \in Regs |-> TRUE]
    /\ rcdev = [r \in Regs |-> DefaultRcdev]
    /\ dev = [r \in Regs |-> NULL]
    /\ registered = [r \in Regs |-> FALSE]
    /\ drvdata = [d \in Devs |-> NULL]
    /\ data = [i \in DataIds |-> [st |-> "unborn", drops |-> 0, val |-> 0]]
    /\ ext = {}
    /\ rcall = [r \in Regs |-> [pc |-> "idle", data |-> NULL, tok |-> NULL,
                                dev |-> NULL, nr |-> 0]]
    /\ hist = [r \in Regs |-> [ret |-> NoRet, path |-> "none", failed |-> FALSE,
                               pre |-> NoPre, rej |-> 0]]
    /\ call = [c \in CallIds |-> IdleCall]
    /\ done = NoneDone

\* --------------------------------------------------------------- register
\* The check of the flag left out.
IsRegistered_Never(r) == FALSE

\* `if this.registered`
IsRegistered(r) == registered[r]

\* A positive status taken for a failure as well.
ExtFailed_NonZero(ret) == ret # 0

\* `ret < 0`
ExtFailed(ret) == ret < 0

\* devm_reset_controller_register keeps the control block unless it returns
\* a negative status.
Keeps(ret) == ret >= 0

\* The topology reference left as it was.
Populate_NoOfNode(d, n) ==
    [dev |-> RawDevice(d), nr_resets |-> n, of_node |-> NULL, ops |-> Build]

\* rcdev.dev, .nr_resets, .of_node, .ops as register fills them in.
Populate(d, n) ==
    [dev |-> RawDevice(d), nr_resets |-> n, of_node |-> OfNode(RawDevice(d)),
     ops |-> Build]

\* ForeignOwnable::into_foreign(data): value i becomes the token i.
IntoForeign(vals, i) == [vals EXCEPT ![i].st = "foreign"]

\* The token left as it is: the value is never reconstituted.
FromForeign_Leak(vals, p) == vals

\* ForeignOwnable::from_foreign(data_pointer), the result dropped at once.
FromForeign(vals, p) ==
    [vals EXCEPT ![p].st = "dropped", ![p].drops = @ + 1]

\* An owned value going out of scope.
DropValue(vals, i) ==
    [vals EXCEPT ![i].st = "dropped", ![i].drops = @ + 1]

\* A slot that is already in use is left alone.
SetDrvdata_KeepExisting(slots, d, p) ==
    IF slots[d] = NULL THEN [slots EXCEPT ![d] = p] ELSE slots

\* dev_set_drvdata(rcdev.dev, data_pointer)
SetDrvdata(slots, d, p) == [slots EXCEPT ![d] = p]

\* The caller holds `&mut platform::Device`: no other register call is using d.
DeviceFree(d) ==
    \A q \in Regs : rcall[q].pc = "installed" => rcdev[q].dev # RawDevice(d)

\* register on an object that is already registered: Err(EINVAL), and the
\* data argument is dropped when the call returns.
RegisterAlready(r, d, n) ==
    /\ alive[r] /\ rcall[r].pc = "idle" /\ Unborn # {} /\ DeviceFree(d)
    /\ IsRegistered(r)
    /\ data' = DropValue(data, NextData)
    /\ rcall' = [rcall EXCEPT ![r].data = NextData]
    /\ hist' = [hist EXCEPT ![r].ret = Err(EINVAL), ![r].path = "already"]
    /\ UNCHANGED <<HAS, alive, rcdev, dev, registered, kernvars, callvars>>

\* register up to the call of the registration entry point: the control block
\* is filled in, the data becomes a token, the token is put in the slot.
RegisterInstall(r, d, n) ==
    /\ alive[r] /\ rcall[r].pc = "idle" /\ Unborn # {} /\ DeviceFree(d)
    /\ ~IsRegistered(r)
    /\ rcdev' = [rcdev EXCEPT ![r] = Populate(d, n)]
    /\ data' = IntoForeign(data, NextData)
    /\ drvdata' = SetDrvdata(drvdata, RawDevice(d), NextData)
    /\ rcall' = [rcall EXCEPT ![r] = [pc |-> "installed", data |-> NextData,
                                      tok |-> NextData, dev |-> d, nr |-> n]]
    /\ hist' = [hist EXCEPT ![r].pre = [rcdev |-> rcdev[r],
                                        slot |-> drvdata[RawDevice(d)]]]
    /\ UNCHANGED <<HAS, alive, dev, registered, ext, callvars>>

\* The entry point accepts: it keeps the control block's address; register
\* records the device and sets the flag.
RegisterAccepted(r, ret) ==
    /\ rcall[r].pc = "installed"
    /\ ~ExtFailed(ret)
    /\ ext' = IF Keeps(ret) THEN ext \cup {r} ELSE ext
    /\ dev' = [dev EXCEPT ![r] = rcdev[r].dev]
    /\ registered' = [registered EXCEPT ![r] = TRUE]
    /\ rcall' = [rcall EXCEPT ![r].pc = "idle"]
    /\ hist' = [hist EXCEPT ![r].ret = Ok(0), ![r].path = "ok", ![r].pre = NoPre,
                            ![r].rej = 0]
    /\ UNCHANGED <<HAS, alive, rcdev, drvdata, data, callvars>>

\* The entry point rejects: from_foreign turns the token back into the value,
\* which is dropped; the raw status is returned as the error.
RegisterRejected(r, ret) ==
    /\ rcall[r].pc = "installed"
    /\ ExtFailed(ret)
    /\ data' = FromForeign(data, rcall[r].tok)
    /\ rcall' = [rcall EXCEPT ![r].pc = "idle"]
    /\ ext' = IF Keeps(ret) THEN ext \cup {r} ELSE ext
    /\ hist' = [hist EXCEPT ![r].ret = FromErrno(ret), ![r].path = "rejected",
                            ![r].failed = TRUE, ![r].rej = ret]
    /\ UNCHANGED <<HAS, alive, rcdev, dev, registered, drvdata, callvars>>

\* ------------------------------------------------------------------- drop
\* Drop for ResetRegistration: a log line, nothing else; the storage of the
\* object (its control block included) is released afterwards.
Drop(r) ==
    /\ alive[r] /\ rcall[r].pc = "idle"
    /\ alive' = [alive EXCEPT ![r] = FALSE]
    /\ UNCHANGED <<HAS, rcdev, dev, registered, rcall, hist, kernvars, data,
                   callvars>>

\* ------------------------------------------------------------ trampolines
\* `(*rcdev).dev` as a trampoline reads it.  The subsystem passes the address
\* it was given; once the object is dropped that storage is released and the
\* read may yield any device pointer.
ReadRcdevDev(r) == IF alive[r] THEN {rcdev[r].dev} ELSE Devs

\* dev_get_drvdata(d)
GetDrvdata(d) == drvdata[d]

\* The borrow takes the token for itself: the value is reconstituted.
Borrow_Consume(vals, p) ==
    IF p # NULL /\ vals[p].st = "foreign" THEN FromForeign(vals, p) ELSE vals

\* T::Data::borrow(data_pointer): a shared view of the value; the token and
\* the value are left as they are.
Borrow(vals, p) == vals

\* The subsystem calls the entry of kind k of a control block it holds; the
\* trampoline reads the slot of the block's device and borrows the token.
CallbackEnter(c, r, k, id) ==
    /\ call[c].pc = "idle"
    /\ r \in ext
    /\ OpsTable(rcdev[r].ops)[k] # None
    /\ \E d \in ReadRcdevDev(r) :
          /\ call' = [call EXCEPT ![c] =
                        [pc |-> "borrowed", reg |-> r, kind |-> k,
                         cb |-> OpsTable(rcdev[r].ops)[k],
                         ptr |-> GetDrvdata(d)]]
          /\ data' = Borrow(data, GetDrvdata(d))
    /\ UNCHANGED <<HAS, regvars, kernvars, done>>

\* The typed operation runs on the borrowed view and the line identifier and
\* returns (what an overriding operation returns is the driver's choice, for
\* every identifier); from_result turns its result into the status handed
\* back to the subsystem.
CallbackReturn(c) ==
    /\ call[c].pc = "borrowed"
    /\ \E res \in OpOutcomes(TypedOp(call[c].cb)) :
          done' = [kind |-> call[c].kind, cb |-> call[c].cb,
                   op |-> TypedOp(call[c].cb), touched |-> TRUE,
                   res |-> res, ret |-> FromResult(res)]
    /\ call' = [call EXCEPT ![c] = IdleCall]
    /\ UNCHANGED <<HAS, regvars, kernvars, data>>

\* The entry of kind k is absent: the subsystem runs no trampoline and
\* reports "not supported" itself.
CallAbsent(r, k, id) ==
    /\ r \in ext
    /\ OpsTable(rcdev[r].ops)[k] = None
    /\ done' = [kind |-> k, cb |-> None, op |-> None, touched |-> FALSE,
                res |-> NoRet, ret |-> -ENOTSUPP]
    /\ UNCHANGED <<HAS, regvars, kernvars, data, call>>

Next ==
    \/ \E r \in Regs, d \in Devs, n \in NrResets : RegisterAlready(r, d, n)
    \/ \E r \in Regs, d \in Devs, n \in NrResets : RegisterInstall(r, d, n)
    \/ \E r \in Regs, ret \in ExtRets : RegisterAccepted(r, ret)
    \/ \E r \in Regs, ret \in ExtRets : RegisterRejected(r, ret)
    \/ \E r \in Regs : Drop(r)
    \/ \E c \in CallIds, r \in Regs, k \in Kinds, id \in LineIds :
          CallbackEnter(c, r, k, id)
    \/ \E c \in CallIds : CallbackReturn(c)
    \/ \E r \in Regs, k \in Kinds, id \in LineIds : CallAbsent(r, k, id)

Spec == Init /\ [][Next]_vars

\* ------------------------------------------------------ the example driver
\* The driver of the end-to-end scenario: its private data is a counter that
\* starts at 0; reset increments the counter and returns it, status returns
\* it unchanged; assert and deassert keep their default bodies.
CounterHAS == {"reset", "status"}

CounterOp(op, v) ==
    IF op = "reset" THEN [val |-> v + 1, res |-> Ok(v + 1)]
                    ELSE [val |-> v, res |-> Ok(v)]

\* The token p designates a value that exists.
Live(p) == p # NULL /\ data[p].st = "foreign"

\* The view is always of the value of the first register call.
BorrowedVal_First(p) == IF Live(1) THEN {data[1].val} ELSE 0..MaxVal

\* T::Data::borrow(data_pointer): a view of the value behind the token, never
\* a copy of it.  A view of a token that is null or was turned back into its
\* value shows anything.
BorrowedVal(p) == IF Live(p) THEN {data[p].val} ELSE 0..MaxVal

\* A trampoline of the example driver returns: the operation runs on the
\* borrowed view, what it stores stays in the value behind the token, and
\* from_result turns its result into the status.
CounterReturn(c) ==
    /\ call[c].pc = "borrowed"
    /\ \E v \in BorrowedVal(call[c].ptr) :
          LET o == CounterOp(TypedOp(call[c].cb), v) IN
             /\ o.val <= MaxVal
             /\ data' = IF Live(call[c].ptr)
                           THEN [data EXCEPT ![call[c].ptr].val = o.val]
                           ELSE data
             /\ done' = [kind |-> call[c].kind, cb |-> call[c].cb,
                         op |-> TypedOp(call[c].cb), touched |-> TRUE,
                         res |-> o.res, ret |-> FromResult(o.res)]
    /\ call' = [call EXCEPT ![c] = IdleCall]
    /\ UNCHANGED <<HAS, regvars, kernvars>>

InitCounter ==
    /\ Init
    /\ HAS = CounterHAS

NextCounter ==
    \/ \E r \in Regs, d \in Devs, n \in NrResets : RegisterAlready(r, d, n)
    \/ \E r \in Regs, d \in Devs, n \in NrResets : RegisterInstall(r, d, n)
    \/ \E r \in Regs, ret \in ExtRets : RegisterAccepted(r, ret)
    \/ \E r \in Regs, ret \in ExtRets : RegisterRejected(r, ret)
    \/ \E r \in Regs : Drop(r)
    \/ \E c \in DOMAIN call, r \in Regs, k \in Kinds, id \in LineIds :
          CallbackEnter(c, r, k, id)
    \/ \E c \in DOMAIN call : CounterReturn(c)
    \/ \E r \in Regs, k \in Kinds, id \in LineIds : CallAbsent(r, k, id)

SpecCounter == InitCounter /\ [][NextCounter]_vars

\* ------------------------------------------------ interleaved invocations
\* The subsystem may have two invocations in flight; the type overrides
\* every operation.
InitPair ==
    /\ HAS = Kinds
    /\ alive = [r \in Regs |-> TRUE]
    /\ rcdev = [r \in Regs |-> DefaultRcdev]
    /\ dev = [r \in Regs |-> NULL]
    /\ registered = [r \in Regs |-> FALSE]
    /\ drvdata = [d \in Devs |-> NULL]
    /\ data = [i \in DataIds |-> [st |-> "unborn", drops |-> 0, val |-> 0]]
    /\ ext = {}
    /\ rcall = [r \in Regs |-> [pc |-> "idle", data |-> NULL, tok |-> NULL,
                                dev |-> NULL, nr |-> 0]]
    /\ hist = [r \in Regs |-> [ret |-> NoRet, path |-> "none", failed |-> FALSE,
                               pre |-> NoPre, rej |-> 0]]
    /\ call = [c \in 1..PairCalls |-> IdleCall]
    /\ done = NoneDone

NextPair ==
    \/ \E r \in Regs, d \in Devs, n \in NrResets : RegisterAlready(r, d, n)
    \/ \E r \in Regs, d \in Devs, n \in NrResets : RegisterInstall(r, d, n)
    \/ \E r \in Regs, ret \in ExtRets : RegisterAccepted(r, ret)
    \/ \E r \in Regs, ret \in ExtRets : RegisterRejected(r, ret)
    \/ \E r \in Regs : Drop(r)
    \/ \E c \in DOMAIN call, r \in Regs, k \in Kinds, id \in LineIds :
          CallbackEnter(c, r, k, id)
    \/ \E c \in DOMAIN call : CallbackReturn(c)

SpecPair == InitPair /\ [][NextPair]_vars

\* ------------------------------------------------- a panicking operation
\* The typed operation panics.  Neither the trampoline nor from_result has a
\* handler for it: the invocation is cut short where it stands (the panic
\* aborts, as does an unwind that reaches the `extern "C"` frame) and hands
\* no status back to the subsystem.
CallbackPanic(c) ==
    /\ call[c].pc = "borrowed"
    /\ call' = [call EXCEPT ![c].pc = "aborted"]
    /\ UNCHANGED <<HAS, regvars, kernvars, data, done>>

NextPanic ==
    \/ \E r \in Regs, d \in Devs, n \in NrResets : RegisterAlready(r, d, n)
    \/ \E r \in Regs, d \in Devs, n \in NrResets : RegisterInstall(r, d, n)
    \/ \E r \in Regs, ret \in ExtRets : RegisterAccepted(r, ret)
    \/ \E r \in Regs, ret \in ExtRets : RegisterRejected(r, ret)
    \/ \E r \in Regs : Drop(r)
    \/ \E c \in DOMAIN call, r \in Regs, k \in Kinds, id \in LineIds :
          CallbackEnter(c, r, k, id)
    \/ \E c \in DOMAIN call : CallbackReturn(c)
    \/ \E c \in DOMAIN call : CallbackPanic(c)
    \/ \E r \in Regs, k \in Kinds, id \in LineIds : CallAbsent(r, k, id)

SpecPanic == Init /\ [][NextPanic]_vars

\* ================================================================= claims
\* A register call on r is entered in this step (it is handed a new value).
RegisterCalled(r) == rcall'[r].data # rcall[r].data

\* C1: a register call on an object that is already registered returns the
\* already-registered error (EINVAL) and changes neither the control block,
\* nor the device linkage, nor the flag, nor any data slot, nor what the
\* subsystem holds, nor the token of the first registration.
C1_AlreadyRegisteredNoChange ==
    [][\A r \in Regs :
          (registered[r] /\ RegisterCalled(r)) =>
             /\ hist'[r].ret = Err(EINVAL) /\ hist'[r].path = "already"
             /\ rcdev' = rcdev /\ dev' = dev /\ registered' = registered
             /\ drvdata' = drvdata /\ ext' = ext
             /\ rcall'[r].tok = rcall[r].tok /\ rcall'[r].pc = "idle"
             /\ data'[rcall[r].tok] = data[rcall[r].tok]]_vars

\* C1 witness: a registered object on which a second call took that path.
C1_Witness ==
    \E r \in Regs : registered[r] /\ hist[r].path = "already"
                     /\ data[rcall[r].tok].st = "foreign"

\* C2: once register has returned because the entry point rejected it, the
\* token made for that call has been turned back into the value and dropped
\* exactly once, the flag is false and the subsystem does not hold the block.
C2_RejectedTokenReclaimedOnce ==
    \A r \in Regs :
       (hist[r].path = "rejected" /\ rcall[r].pc = "idle") =>
          /\ data[rcall[r].tok].st = "dropped"
          /\ data[rcall[r].tok].drops = 1
          /\ ~registered[r]
          /\ r \notin ext

\* C2 witness: a rejected call has returned.
C2_Witness ==
    \E r \in Regs : hist[r].path = "rejected" /\ rcall[r].pc = "idle"
                     /\ hist[r].ret.v < 0 /\ rcall[r].tok # NULL

\* C3: a registered object that has been dropped is no longer held by the
\* subsystem and its token has been reclaimed.
C3_DropUnregistersAndReclaims ==
    \A r \in Regs :
       (~alive[r] /\ registered[r]) =>
          /\ r \notin ext
          /\ data[rcall[r].tok].st = "dropped"

\* C4: a trampoline never holds a borrowed view of a token that has been
\* turned back into its value and dropped.
C4_NoBorrowOfReclaimedToken ==
    \A c \in DOMAIN call :
       (call[c].pc = "borrowed" /\ call[c].ptr # NULL) =>
          data[call[c].ptr].st # "dropped"

\* C5: when a register call rejected by the entry point returns, the control
\* block, the device linkage, the flag and the data slot of the device are
\* what they were when the call was entered.
C5_RejectedRegisterNoSideEffect ==
    [][\A r \in Regs :
          (rcall[r].pc = "installed" /\ hist'[r].path = "rejected"
                                     /\ rcall'[r].pc = "idle") =>
             /\ rcdev'[r] = hist[r].pre.rcdev
             /\ dev'[r] = NULL /\ ~registered'[r]
             /\ drvdata'[rcdev[r].dev] = hist[r].pre.slot]_vars

\* C6: when register is about to call the registration entry point the token
\* of the call is in the data slot of the device, and a token is turned back
\* into its value only when no control block the subsystem holds leads a
\* trampoline to it through the slot of its device.
C6_InstalledBeforeRemovedAfter ==
    [][/\ \A r \in Regs :
            rcall'[r].pc = "installed" =>
               /\ drvdata'[rcdev'[r].dev] = rcall'[r].tok
               /\ data'[rcall'[r].tok].st = "foreign"
       /\ \A t \in DataIds :
            (data[t].st = "foreign" /\ data'[t].st = "dropped") =>
               \A q \in ext : drvdata[rcdev[q].dev] # t]_vars

\* C7: a register call on an object whose previous call was rejected by the
\* entry point is not turned away as already registered, and when the entry
\* point accepts it the object is registered and the slot of the device
\* holds the live token of the data given to this call.
C7_RetryAfterRejection ==
    [][\A r \in Regs :
          /\ (hist[r].path = "rejected" /\ RegisterCalled(r)) =>
                /\ hist'[r].path # "already"
                /\ rcall'[r].pc = "installed"
                /\ rcall'[r].tok = rcall'[r].data
                /\ rcall'[r].tok # rcall[r].tok
          /\ (hist[r].path = "rejected" /\ rcall[r].pc = "installed"
                 /\ r \notin ext /\ r \in ext') =>
                /\ registered'[r] /\ hist'[r].path = "ok"
                /\ hist'[r].ret.tag = "Ok"
                /\ drvdata'[rcdev'[r].dev] = rcall[r].data
                /\ data'[rcall[r].data].st = "foreign"]_vars

\* C7 witness: an object registered by a call that followed a rejected one.
C7_Witness ==
    \E r \in Regs : hist[r].failed /\ hist[r].path = "ok" /\ registered[r]
                     /\ drvdata[rcdev[r].dev] = rcall[r].tok

\* C8: the entry of kind k of the table of the bound type is a trampoline
\* exactly when the type overrides k, that trampoline calls operation k, and
\* so every trampoline that runs was asked for an overridden kind and calls
\* the operation of the kind it was asked for.
C8_EntryPresentIffOverridden ==
    /\ \A k \in Kinds :
          /\ (VTABLE(HAS)[k] # None) <=> (k \in HAS)
          /\ (VTABLE(HAS)[k] # None) => TypedOp(VTABLE(HAS)[k]) = k
    /\ \A r \in Regs : rcdev[r].ops # "null" => OpsTable(rcdev[r].ops) = VTABLE(HAS)
    /\ \A c \in DOMAIN call :
          call[c].pc = "borrowed" =>
             call[c].kind \in HAS /\ TypedOp(call[c].cb) = call[c].kind
    /\ done.cb # None => (done.kind \in HAS /\ done.op = done.kind)
    /\ (done.kind # None /\ done.cb = None) => done.kind \notin HAS

\* C8 witness: a type overriding some operations but not all is registered
\* with the subsystem; its status trampoline has run, its reset entry is absent.
C8_Witness ==
    /\ HAS # {} /\ HAS # Kinds
    /\ done.cb # None /\ done.op = "status"
    /\ \E r \in ext : OpsTable(rcdev[r].ops)["reset"] = None

\* C9: for a kind the type does not override no trampoline ever reads the
\* slot or borrows; the subsystem gets the "not supported" status, which is
\* also the only result of the default body of the operation.
C9_UnsupportedNeverBorrows ==
    /\ \A c \in DOMAIN call : call[c].kind \notin HAS => call[c] = IdleCall
    /\ (done.kind # None /\ done.kind \notin HAS) =>
          /\ done.ret = -ENOTSUPP
          /\ ~done.touched /\ done.cb = None
    /\ \A k \in Kinds \ HAS :
          {FromResult(x) : x \in OpOutcomes(k)} = {-ENOTSUPP}

\* C9 witness: a kind that is not overridden was asked for and answered.
C9_Witness ==
    /\ done.kind \in Kinds \ HAS
    /\ done.ret = -524 /\ ~done.touched
    /\ HAS # {}

\* C10: when a trampoline returns, the status it hands back is the payload
\* of a successful typed result and the negative errno of a failed one, and
\* the step changes nothing of the registration, the slots or the tokens.
C10_ReturnFollowsTypedResult ==
    [][(\E c \in DOMAIN call : call[c].pc = "borrowed" /\ call'[c].pc = "idle") =>
          /\ done'.cb # None
          /\ done'.res.tag \in {"Ok", "Err"}
          /\ done'.res.tag = "Ok" => done'.ret = done'.res.v
          /\ done'.res.tag = "Err" =>
                /\ done'.ret < 0
                /\ done'.res \in {Err(-done'.ret)}
          /\ UNCHANGED <<alive, rcdev, dev, registered, rcall, hist, drvdata,
                         ext, data>>]_vars

\* C10 witness: a typed failure has been returned as a negative status, by a
\* trampoline called through a registered object.
C10_Witness ==
    /\ done.cb # None /\ done.res = Err(EINVAL) /\ done.ret = -22
    /\ \E r \in ext : registered[r]
\* The slot of the device of r still holds the token of the register call
\* that registered r: no register call has put a token in it since, and r has
\* not been dropped.
Undisturbed(r) ==
    /\ alive[r] /\ registered[r]
    /\ drvdata[rcdev[r].dev] = rcall[r].tok

\* C11: with the example driver, an invocation made through a registered
\* object, with nothing but trampoline invocations since its registration,
\* operates on the value given to that registration: it starts from what the
\* earlier invocations left there, reset returns and leaves one more, status
\* returns it and leaves it, and no other value changes.
C11_InvocationsShareOneInstance ==
    [][\A c \in DOMAIN call :
          (call[c].pc = "borrowed" /\ call'[c].pc = "idle"
              /\ Undisturbed(call[c].reg)) =>
             LET t == rcall[call[c].reg].tok IN
                /\ call[c].ptr = t /\ data[t].st = "foreign"
                /\ data'[t].val = data[t].val
                                    + (IF call[c].kind = "reset" THEN 1 ELSE 0)
                /\ done'.ret = data'[t].val
                /\ \A u \in DataIds \ {t} : data'[u] = data[u]]_vars

\* C11 witness: after a reset that returned 1, status has returned 1 from the
\* value given to the registration, which holds 1.
C11_Witness ==
    \E r \in Regs :
       /\ Undisturbed(r) /\ hist[r].path = "ok"
       /\ data[rcall[r].tok].val = 1
       /\ done.kind = "status" /\ done.ret = 1
\* C12: when a trampoline borrows, or returns, while another invocation
\* holds a borrowed view, that view, the token behind it, every value and
\* every slot are left as they are; and two views held together through one
\* registered object, with nothing but trampoline invocations since its
\* registration, are views of the same value, the one given to that
\* registration, whose token is live and still in the slot.
C12_InterleavedBorrowsShare ==
    [][\A c, o \in DOMAIN call :
          (c # o /\ call[o].pc = "borrowed" /\ call'[c] # call[c]) =>
             /\ call'[o] = call[o]
             /\ data' = data /\ drvdata' = drvdata /\ ext' = ext
             /\ UNCHANGED regvars
             /\ (call'[c].pc = "borrowed" /\ call'[c].reg = call[o].reg
                    /\ Undisturbed(call[o].reg)) =>
                   LET t == rcall[call[o].reg].tok IN
                      /\ call'[c].ptr = t /\ call[o].ptr = t
                      /\ data'[t].st = "foreign" /\ data'[t].drops = 0
                      /\ drvdata'[rcdev[call[o].reg].dev] = t]_vars

\* C12 witness: two invocations of different kinds hold views together
\* through one registered object.
C12_Witness ==
    \E c, o \in DOMAIN call :
       /\ c # o /\ call[c].pc = "borrowed" /\ call[o].pc = "borrowed"
       /\ call[c].reg = call[o].reg /\ call[c].kind # call[o].kind
       /\ Undisturbed(call[c].reg)
       /\ call[c].ptr = call[o].ptr /\ Live(call[c].ptr)
\* C13: every control block whose address the subsystem holds still exists:
\* the object it is part of has not been dropped and its storage released.
C13_HeldBlockExists ==
    \A r \in ext : alive[r]
\* C14: no invocation is cut short by a panic of the typed operation: when
\* the operation panics the trampoline catches it and returns an error
\* status, so no invocation is ever left without a status handed back.
C14_PanicCaughtAtBoundary ==
    \A c \in DOMAIN call : call[c].pc # "aborted"
\* C15: a step of a trampoline, the borrow as well as the return, of any
\* kind and with any result, changes neither the flag, nor the device
\* linkage, nor the control block of any object, nor any slot, nor what the
\* subsystem holds, nor the state of any token: a token that was live is
\* live afterwards and has not been dropped.
C15_TrampolineFrame ==
    [][(call' # call) =>
          /\ registered' = registered /\ dev' = dev /\ rcdev' = rcdev
          /\ drvdata' = drvdata /\ ext' = ext /\ alive' = alive
          /\ \A t \in DataIds :
                /\ data'[t].st = data[t].st
                /\ data'[t].drops = data[t].drops
          /\ \A c \in DOMAIN call :
                (call'[c].pc = "borrowed" /\ Live(call'[c].ptr)) =>
                   data'[call'[c].ptr].st = "foreign"]_vars

\* C15 witness: after an invocation has returned, the next one has borrowed
\* the same live token, which is still in the slot of the registered object.
C15_Witness ==
    \E c \in DOMAIN call :
       /\ done.touched /\ done.res.tag = "Err"
       /\ call[c].pc = "borrowed" /\ Undisturbed(call[c].reg)
       /\ call[c].ptr = rcall[call[c].reg].tok
       /\ Live(call[c].ptr) /\ data[call[c].ptr].drops = 0
\* C16: an invocation through the control block of a registered object
\* that has not been dropped holds a view of the token made from the data of
\* that object's own successful register call, whatever register calls were
\* made on other objects with the same device.
C16_OwnTokenBorrowed ==
    \A c \in DOMAIN call :
       (call[c].pc = "borrowed" /\ registered[call[c].reg]
                                 /\ alive[call[c].reg]) =>
          call[c].ptr = rcall[call[c].reg].tok
\* C17: when a register call on an object that was not registered returns,
\* it returns success exactly when the entry point kept the control block,
\* that is when it returned zero or a positive status, and the object is
\* then registered; otherwise it returns the error whose code is the negative
\* status the entry point returned, and the object is not registered.
C17_SuccessIffNonNegative ==
    [][\A r \in Regs :
          (rcall[r].pc = "installed" /\ rcall'[r].pc = "idle") =>
             /\ r \notin ext
             /\ (hist'[r].ret.tag = "Ok") <=> (r \in ext')
             /\ hist'[r].ret.tag = "Ok" =>
                   /\ registered'[r] /\ hist'[r].rej = 0
             /\ hist'[r].ret.tag # "Ok" =>
                   /\ hist'[r].rej < 0
                   /\ hist'[r].ret = [tag |-> "Err", v |-> hist'[r].rej]
                   /\ ~registered'[r]]_vars

\* C17 witness: one object registered by an accepted call, another whose call
\* returned the error carrying the status -12 of the entry point.
C17_Witness ==
    \E r, q \in Regs :
       /\ hist[r].ret = Ok(0) /\ registered[r] /\ r \in ext
       /\ hist[q].rej = -12 /\ hist[q].ret.v = -12 /\ ~registered[q]
       /\ rcall[q].pc = "idle"
\* C18: an object on which register was never called is unregistered and
\* has no device recorded; the flag is set exactly when a device is
\* recorded; once set the flag stays set and the device stays the same; and
\* a register call returns success only on an object whose flag was not
\* set, setting it, so that at most one call on an object ever succeeds.
C18_RegisteredOnceIffDevice ==
    [][\A r \in Regs :
          /\ rcall[r].data = NULL => (~registered[r] /\ dev[r] = NULL)
          /\ registered[r] <=> dev[r] # NULL
          /\ registered'[r] <=> dev'[r] # NULL
          /\ registered[r] => (registered'[r] /\ dev'[r] = dev[r])
          /\ (rcall'[r] # rcall[r] /\ rcall'[r].pc = "idle"
                 /\ hist'[r].ret.tag = "Ok") =>
                (~registered[r] /\ registered'[r])]_vars

\* C18 witness: an object whose first call was accepted and whose second
\* was turned away as already registered, next to one never registered.
C18_Witness ==
    \E r, q \in Regs :
       /\ registered[r] /\ dev[r] # NULL /\ dev[r] = rcdev[r].dev
       /\ ~hist[r].failed /\ hist[r].path = "already"
       /\ ~registered[q] /\ dev[q] = NULL /\ rcall[q].data = NULL
\* C19: while register is calling the registration entry point, the control
\* block it passes has the raw handle of the device given to the call, the
\* line count given to the call, the topology reference read from that
\* device, and the address of the static table of the bound type.
C19_BlockPopulatedAtEntryPoint ==
    \A r \in Regs :
       rcall[r].pc = "installed" =>
          /\ rcall[r].dev \in Devs /\ rcall[r].nr \in NrResets
          /\ rcdev[r].dev = RawDevice(rcall[r].dev)
          /\ rcdev[r].nr_resets = rcall[r].nr
          /\ rcdev[r].of_node = OfNode(RawDevice(rcall[r].dev))
          /\ rcdev[r].of_node # NULL
          /\ rcdev[r].ops = Build
          /\ OpsTable(rcdev[r].ops) = VTABLE(HAS)

\* C19 witness: a call with device 2 and 8 lines is at the entry point, on
\* an object whose earlier, rejected call had filled in 4 lines.
C19_Witness ==
    \E r \in Regs :
       /\ rcall[r].pc = "installed" /\ rcall[r].dev = 2 /\ rcall[r].nr = 8
       /\ rcdev[r].nr_resets = 8 /\ rcdev[r].of_node = 20
       /\ hist[r].pre.rcdev.nr_resets = 4
\* C20: when a register call returns, the value it was given is either
\* behind a live token that is in the slot of the device, which is the case
\* exactly when the call returned success, or it has been dropped exactly
\* once and no slot holds a token of it; on the already-registered path it
\* was never made a token; and no value is ever dropped twice.
C20_DataInstalledOrDroppedOnce ==
    [][/\ \A i \in DataIds : data'[i].drops <= 1
       /\ \A r \in Regs :
            (rcall'[r] # rcall[r] /\ rcall'[r].pc = "idle") =>
               LET i == rcall'[r].data IN
                  /\ hist'[r].ret.tag = "Ok" =>
                        /\ data'[i].st = "foreign" /\ data'[i].drops = 0
                        /\ drvdata'[rcdev'[r].dev] = i
                  /\ hist'[r].ret.tag # "Ok" =>
                        /\ data'[i].st = "dropped" /\ data'[i].drops = 1
                        /\ \A d \in Devs : drvdata'[d] # i
                  /\ hist'[r].path = "already" =>
                        /\ data[i].st = "unborn"
                        /\ drvdata' = drvdata]_vars
====
